---- MODULE Spec2Model ----
(***************************************************************************)
(* Model of stdx::polymorphic_value<T, Options> (src/polymorphic_value.h). *)
(*                                                                         *)
(* A container is a pair (m_data, m_handler).  m_data is a union of an     *)
(* inline byte region and a unique_ptr<T>; m_handler is a handler_base     *)
(* object whose dynamic type (handler_base, small_handler<U> or            *)
(* big_handler<U>) is replaced with placement new.  Every call through     *)
(* m_handler is modelled as dispatching on the handler that was last       *)
(* placed there, which is what the asserts of the test program require.    *)
(*                                                                         *)
(* Objects live in numbered slots; obj[k] records the concrete type, the   *)
(* value and whether the object is a heap allocation.  Operations are      *)
(* written as functions from a "world" record to a world, composed in the  *)
(* order of the statements of the source; every action applies one whole   *)
(* member function.  The world counts the constructor calls, destructor    *)
(* calls, allocations and deallocations the member function makes; the     *)
(* counts of the last operation are kept in last, with the order in which  *)
(* it destroyed objects, installed handlers and constructed objects.       *)
(*                                                                         *)
(* Spec covers member functions that return: the constructors of the       *)
(* stored classes and operator new are taken to succeed.  An instantiation *)
(* a requires clause or static_assert refuses has the result "rejected"    *)
(* and runs nothing.  SpecThrow adds the calls that an exception of the    *)
(* construction leaves, SpecAccess has the optional-style accessors and    *)
(* SpecSizes the sizes of the instantiations.                              *)
(***************************************************************************)
EXTENDS Integers, Sequences, FiniteSets, TLC

VARIABLES cfg, c, obj, ub, last

vars == <<cfg, c, obj, ub, last>>

----------------------------------------------------------------------------
(* Bounds *)

NumSlots == 3       \* objects that can be alive at the same time

----------------------------------------------------------------------------
(* The classes the container is instantiated with and asked to store.      *)
(* SmallBase, SmallSub, BigSub and MoveOnly are the classes of the test    *)
(* program (sizes for an LP64 target); Aligned16 is an over-aligned        *)
(* subclass, Pinned can be neither copied nor moved and Other is unrelated *)
(* to SmallBase.  HugeSub is a subclass of 512 bytes, stored in the size   *)
(* scenario (SpecSizes) only.                                              *)

TypeInfo ==
    [SmallBase |-> [size |-> 16,  align |-> 8,  copy |-> TRUE,  move |-> TRUE,  parent |-> "none"],
     SmallSub  |-> [size |-> 16,  align |-> 8,  copy |-> TRUE,  move |-> TRUE,  parent |-> "SmallBase"],
     BigSub    |-> [size |-> 416, align |-> 8,  copy |-> TRUE,  move |-> TRUE,  parent |-> "SmallBase"],
     HugeSub   |-> [size |-> 512, align |-> 8,  copy |-> TRUE,  move |-> TRUE,  parent |-> "SmallBase"],
     MoveOnly  |-> [size |-> 16,  align |-> 8,  copy |-> FALSE, move |-> TRUE,  parent |-> "SmallBase"],
     Pinned    |-> [size |-> 16,  align |-> 8,  copy |-> FALSE, move |-> FALSE, parent |-> "SmallBase"],
     Aligned16 |-> [size |-> 32,  align |-> 16, copy |-> TRUE,  move |-> TRUE,  parent |-> "SmallBase"],
     Other     |-> [size |-> 16,  align |-> 8,  copy |-> TRUE,  move |-> TRUE,  parent |-> "none"]]

AllTypes == DOMAIN TypeInfo

Types == AllTypes \ {"HugeSub"}

sizeof(U) == TypeInfo[U].size
alignof(U) == TypeInfo[U].align
is_copy_constructible_v(U) == TypeInfo[U].copy
is_move_constructible_v(U) == TypeInfo[U].move

RECURSIVE is_base_of_v(_, _)
is_base_of_v(B, D) ==
    IF D = "none" THEN FALSE
    ELSE IF D = B THEN TRUE
    ELSE is_base_of_v(B, TypeInfo[D].parent)

Max(m, n) == IF m >= n THEN m ELSE n

(* default member initializers of polymorphic_value_options *)
DefaultOptions ==
    [size |-> 64, alignment |-> 0, heap |-> TRUE, copy |-> TRUE, move |-> TRUE]

(* The instantiations polymorphic_value<T, Options> explored: those of the *)
(* test program and one for each option set away from its default.         *)
Instantiations ==
    {[T |-> "SmallBase", opt |-> DefaultOptions],
     [T |-> "SmallBase", opt |-> [DefaultOptions EXCEPT !.size = 2]],
     [T |-> "BigSub",    opt |-> DefaultOptions],
     [T |-> "BigSub",    opt |-> [DefaultOptions EXCEPT !.size = 512]],
     [T |-> "MoveOnly",  opt |-> DefaultOptions],
     [T |-> "SmallBase", opt |-> [DefaultOptions EXCEPT !.heap = FALSE]],
     [T |-> "SmallBase", opt |-> [DefaultOptions EXCEPT !.heap = FALSE, !.size = 2]],
     [T |-> "SmallBase", opt |-> [DefaultOptions EXCEPT !.copy = FALSE]],
     [T |-> "SmallBase", opt |-> [DefaultOptions EXCEPT !.copy = FALSE, !.move = FALSE]],
     [T |-> "SmallBase", opt |-> [DefaultOptions EXCEPT !.alignment = 16]]}

Containers == {"a", "b"}

----------------------------------------------------------------------------
(* Options adjusted for properties of T *)

(* a capacity raised to the size of T also when heap is allowed *)
sbo_size_Raised == Max(cfg.opt.size, sizeof(cfg.T))

sbo_size ==
    IF cfg.opt.heap
    THEN (IF cfg.opt.size >= sizeof(cfg.T) THEN cfg.opt.size ELSE 0)
    ELSE Max(cfg.opt.size, sizeof(cfg.T))

alignment == Max(alignof(cfg.T), cfg.opt.alignment)

allow_heap_allocation == cfg.opt.heap

copyable == cfg.opt.copy /\ is_copy_constructible_v(cfg.T)

movable == cfg.opt.move /\ is_move_constructible_v(cfg.T)

(* the size of a pointer: the size and alignment of unique_ptr<T> and of   *)
(* the handler_base object (one vtable pointer)                            *)
PointerSize == 8

RoundUp(n, a) == ((n + a - 1) \div a) * a

(* union data: m_bytes[max(1, sbo_size)] alignas(alignment) over m_ptr *)
alignof_data == Max(alignment, PointerSize)

sizeof_data == RoundUp(Max(Max(1, sbo_size), PointerSize), alignof_data)

(* a container laid out without its handler *)
sizeof_polymorphic_value_NoHandler == sizeof_data

(* sizeof(polymorphic_value<T, Options>): m_data followed by m_handler *)
sizeof_polymorphic_value == RoundUp(sizeof_data + PointerSize, alignof_data)

----------------------------------------------------------------------------
(* Handlers and the data union *)

handler_base == [kind |-> "empty", type |-> "none"]
small_handler(U) == [kind |-> "small", type |-> U]
big_handler(U) == [kind |-> "big", type |-> U]

(* data(): m_ptr(nullptr); m_handler default constructed as handler_base *)
FreshContainer ==
    [live |-> TRUE, h |-> handler_base, bytes |-> 0, ptr |-> 0, ptrInit |-> TRUE]

(* a container whose lifetime has ended *)
DeadContainer ==
    [live |-> FALSE, h |-> handler_base, bytes |-> 0, ptr |-> 0, ptrInit |-> FALSE]

Slots == 1..NumSlots

FreeSlot == [state |-> "free", type |-> "none", val |-> 0, heap |-> FALSE]

(* the state at the start of a member function *)
World ==
    [c |-> c, obj |-> obj, ub |-> ub,
     ctors |-> 0, dtors |-> 0, allocs |-> 0, frees |-> 0, overflow |-> FALSE,
     ev |-> << >>]

IsLive(w, k) == k # 0 /\ w.obj[k].state = "live"

FreeSlots(w) == {k \in Slots : w.obj[k].state = "free"}

(* the slot the next object is constructed in, 0 if there is none *)
NextSlot(w) ==
    IF FreeSlots(w) = {} THEN 0
    ELSE CHOOSE k \in FreeSlots(w) : \A j \in FreeSlots(w) : k <= j

(* A constructor of U has run: a new object, inline or in a fresh heap     *)
(* allocation (make_unique<U>).                                            *)
NewObj(w, U, v, onHeap) ==
    IF NextSlot(w) = 0 THEN [w EXCEPT !.overflow = TRUE]
    ELSE [w EXCEPT !.obj[NextSlot(w)] =
                        [state |-> "live", type |-> U, val |-> v, heap |-> onHeap],
                   !.ctors = @ + 1,
                   !.allocs = IF onHeap THEN @ + 1 ELSE @,
                   !.ev = Append(@, "construct")]

(* The destructor runs on the object in slot k (and delete, for a heap     *)
(* object).  Running it on storage that holds no live object is undefined. *)
DestroyObj(w, k) ==
    IF ~IsLive(w, k)
    THEN [w EXCEPT !.ub = TRUE, !.dtors = @ + 1, !.ev = Append(@, "destroy")]
    ELSE [w EXCEPT !.obj[k] = FreeSlot,
                   !.dtors = @ + 1,
                   !.frees = IF w.obj[k].heap THEN @ + 1 ELSE @,
                   !.ev = Append(@, "destroy")]

(* construct_at(reinterpret_cast<U*>(m_bytes), ...): the bytes of the      *)
(* union now hold the object in slot k, whatever they held before is       *)
(* overwritten without being destroyed.                                    *)
PutBytes(w, x, k) ==
    [w EXCEPT !.c[x].bytes = k, !.c[x].ptr = 0, !.c[x].ptrInit = FALSE]

(* construct_at(&m_ptr, ...) *)
PutPtr(w, x, k) ==
    [w EXCEPT !.c[x].bytes = 0, !.c[x].ptr = k, !.c[x].ptrInit = TRUE]

(* construct_at with a U constructed from value v: in the bytes of x, or   *)
(* in a fresh allocation owned by the m_ptr of x                           *)
ConstructInline(w, x, U, v) == PutBytes(NewObj(w, U, v, FALSE), x, NextSlot(w))
ConstructOnHeap(w, x, U, v) == PutPtr(NewObj(w, U, v, TRUE), x, NextSlot(w))

(* the value read from the object in slot k *)
ValueAt(w, k) == IF k # 0 THEN w.obj[k].val ELSE 0

(* handler.destroy(d) *)
HandlerDestroy(w, x) ==
    LET d == w.c[x] IN
    CASE d.h.kind = "empty" -> w
      [] d.h.kind = "small" -> [DestroyObj(w, d.bytes) EXCEPT !.c[x].bytes = 0]
      [] d.h.kind = "big" ->
            LET w1 == IF d.ptr # 0 THEN DestroyObj(w, d.ptr) ELSE w
            IN  [w1 EXCEPT !.c[x].ptr = 0,
                           !.c[x].ptrInit = FALSE,
                           !.ub = @ \/ ~d.ptrInit]

(* new(&m_handler) H: the handler of x is replaced by h *)
Install(w, x, h) == [w EXCEPT !.c[x].h = h, !.ev = Append(@, "install")]

(* an imbue_handler that leaves the destination alone for an empty source *)
ImbueHandler_SkipEmpty(w, src, dst) ==
    IF w.c[src].h.kind = "empty" THEN w ELSE Install(w, dst, w.c[src].h)

(* src.m_handler.imbue_handler(dest.m_handler) *)
ImbueHandler(w, src, dst) == Install(w, dst, w.c[src].h)

(* a copy that shares the heap object instead of cloning it *)
HandlerCopy_Shallow(w, dst, src) ==
    LET s == w.c[src]
        U == s.h.type
    IN
    CASE s.h.kind = "empty" -> w
      [] s.h.kind = "small" ->
            IF is_copy_constructible_v(U)
            THEN [ConstructInline(w, dst, U, ValueAt(w, s.bytes))
                    EXCEPT !.ub = @ \/ ~IsLive(w, s.bytes)]
            ELSE w
      [] s.h.kind = "big" ->
            IF is_copy_constructible_v(U) THEN PutPtr(w, dst, s.ptr) ELSE w

(* src.m_handler.copy(dest.m_data, src.m_data) *)
HandlerCopy(w, dst, src) ==
    LET s == w.c[src]
        U == s.h.type
    IN
    CASE s.h.kind = "empty" -> w
      [] s.h.kind = "small" ->
            IF is_copy_constructible_v(U)
            THEN [ConstructInline(w, dst, U, ValueAt(w, s.bytes))
                    EXCEPT !.ub = @ \/ ~IsLive(w, s.bytes)]
            ELSE w
      [] s.h.kind = "big" ->
            IF is_copy_constructible_v(U)
            THEN [ConstructOnHeap(w, dst, U, ValueAt(w, s.ptr))
                    EXCEPT !.ub = @ \/ ~IsLive(w, s.ptr)]
            ELSE w

(* a move of the heap handle that leaves the source handle set *)
HandlerMove_KeepSource(w, dst, src) ==
    LET s == w.c[src]
        U == s.h.type
    IN
    CASE s.h.kind = "empty" -> w
      [] s.h.kind = "small" ->
            IF is_move_constructible_v(U)
            THEN [ConstructInline(w, dst, U, ValueAt(w, s.bytes))
                    EXCEPT !.ub = @ \/ ~IsLive(w, s.bytes)]
            ELSE w
      [] s.h.kind = "big" ->
            IF is_move_constructible_v(U) THEN PutPtr(w, dst, s.ptr) ELSE w

(* a move that clones the heap object as a copy does *)
HandlerMove_Clone(w, dst, src) ==
    LET s == w.c[src]
        U == s.h.type
    IN
    CASE s.h.kind = "empty" -> w
      [] s.h.kind = "small" ->
            IF is_move_constructible_v(U)
            THEN [ConstructInline(w, dst, U, ValueAt(w, s.bytes))
                    EXCEPT !.ub = @ \/ ~IsLive(w, s.bytes)]
            ELSE w
      [] s.h.kind = "big" ->
            IF is_move_constructible_v(U)
            THEN [ConstructOnHeap(w, dst, U, ValueAt(w, s.ptr))
                    EXCEPT !.ub = @ \/ ~IsLive(w, s.ptr)]
            ELSE w

(* src.m_handler.move(dest.m_data, src.m_data) *)
HandlerMove(w, dst, src) ==
    LET s == w.c[src]
        U == s.h.type
    IN
    CASE s.h.kind = "empty" -> w
      [] s.h.kind = "small" ->
            IF is_move_constructible_v(U)
            THEN [ConstructInline(w, dst, U, ValueAt(w, s.bytes))
                    EXCEPT !.ub = @ \/ ~IsLive(w, s.bytes)]
            ELSE w
      [] s.h.kind = "big" ->
            IF is_move_constructible_v(U)
            THEN [PutPtr(w, dst, s.ptr) EXCEPT !.c[src].ptr = 0,
                                               !.ub = @ \/ ~s.ptrInit]
            ELSE w

(* handler.get(d): 0 is nullptr, otherwise the object the pointer refers   *)
(* to; the small handler returns the address of the bytes, never null.     *)
HandlerGet(w, x) ==
    LET d == w.c[x] IN
    CASE d.h.kind = "empty" -> 0
      [] d.h.kind = "small" -> d.bytes
      [] d.h.kind = "big" -> d.ptr

GetIsNull(w, x) ==
    LET d == w.c[x] IN
    CASE d.h.kind = "empty" -> TRUE
      [] d.h.kind = "small" -> FALSE
      [] d.h.kind = "big" -> d.ptr = 0

----------------------------------------------------------------------------
(* Member functions, as functions on worlds *)

(* a reset that destroys the object and keeps the handler *)
reset_KeepHandler(w, x) == HandlerDestroy(w, x)

(* a reset that installs the empty handler over the prior content *)
reset_NoDestroy(w, x) == Install(w, x, handler_base)

reset(w, x) == Install(HandlerDestroy(w, x), x, handler_base)

(* the checks of emplace<U> without the one on the alignment *)
EmplaceAccepted_NoAlignment(U) ==
    /\ is_base_of_v(cfg.T, U)
    /\ (~copyable \/ is_copy_constructible_v(U))
    /\ (~movable \/ is_move_constructible_v(U))
    /\ (allow_heap_allocation \/ sizeof(U) <= sbo_size)

(* the checks of emplace<U> without those on copy and move construction *)
EmplaceAccepted_NoCapability(U) ==
    /\ is_base_of_v(cfg.T, U)
    /\ (allow_heap_allocation \/ sizeof(U) <= sbo_size)
    /\ alignof(U) <= alignment

(* the static_asserts and the requires clause of emplace<U> *)
EmplaceAccepted(U) ==
    /\ is_base_of_v(cfg.T, U)
    /\ (~copyable \/ is_copy_constructible_v(U))
    /\ (~movable \/ is_move_constructible_v(U))
    /\ (allow_heap_allocation \/ sizeof(U) <= sbo_size)
    /\ alignof(U) <= alignment

(* an emplace that puts a U of exactly the inline size on the heap *)
emplace_StrictFit(w, x, U, v) ==
    LET w1 == HandlerDestroy(w, x) IN
    IF sizeof(U) < sbo_size
    THEN ConstructInline(Install(w1, x, small_handler(U)), x, U, v)
    ELSE ConstructOnHeap(Install(w1, x, big_handler(U)), x, U, v)

(* an emplace that does not destroy the prior content *)
emplace_NoDestroy(w, x, U, v) ==
    IF sizeof(U) <= sbo_size
    THEN ConstructInline(Install(w, x, small_handler(U)), x, U, v)
    ELSE ConstructOnHeap(Install(w, x, big_handler(U)), x, U, v)

(* an emplace that destroys the prior content after constructing the new *)
emplace_ConstructFirst(w, x, U, v) ==
    LET k == HandlerGet(w, x)
        w1 == IF sizeof(U) <= sbo_size
              THEN ConstructInline(Install(w, x, small_handler(U)), x, U, v)
              ELSE ConstructOnHeap(Install(w, x, big_handler(U)), x, U, v)
    IN  IF k # 0 THEN DestroyObj(w1, k) ELSE w1

emplace(w, x, U, v) ==
    LET w1 == HandlerDestroy(w, x) IN
    IF sizeof(U) <= sbo_size
    THEN ConstructInline(Install(w1, x, small_handler(U)), x, U, v)
    ELSE ConstructOnHeap(Install(w1, x, big_handler(U)), x, U, v)

CopyConstruct(w, x, src) ==
    LET w0 == [w EXCEPT !.c[x] = FreshContainer]
    IN  HandlerCopy(ImbueHandler(w0, src, x), x, src)

MoveConstruct(w, x, src) ==
    LET w0 == [w EXCEPT !.c[x] = FreshContainer]
    IN  reset(HandlerMove(ImbueHandler(w0, src, x), x, src), src)

CopyAssign(w, x, src) ==
    IF x = src THEN w
    ELSE HandlerCopy(ImbueHandler(HandlerDestroy(w, x), src, x), x, src)

(* a move assignment that does not reset the source *)
MoveAssign_NoReset(w, x, src) ==
    IF x = src THEN w
    ELSE HandlerMove(ImbueHandler(HandlerDestroy(w, x), src, x), x, src)

(* a move assignment without the test for self-assignment *)
MoveAssign_NoSelfCheck(w, x, src) ==
    reset(HandlerMove(ImbueHandler(HandlerDestroy(w, x), src, x), x, src), src)

MoveAssign(w, x, src) ==
    IF x = src THEN w
    ELSE reset(HandlerMove(ImbueHandler(HandlerDestroy(w, x), src, x), x, src), src)

Destruct(w, x) == [HandlerDestroy(w, x) EXCEPT !.c[x] = DeadContainer]

----------------------------------------------------------------------------
(* The state machine *)

Op(op, x, y, U, res) ==
    [op |-> op, x |-> x, y |-> y, U |-> U, res |-> res, arg |-> 0, ret |-> 0]

(* a call with the number arg as argument that returns the number ret *)
OpRet(op, x, U, arg, res, ret) ==
    [Op(op, x, "none", U, res) EXCEPT !.arg = arg, !.ret = ret]

NoCounts == [ctors |-> 0, dtors |-> 0, allocs |-> 0, frees |-> 0]

Init ==
    /\ cfg \in Instantiations
    /\ c = [x \in Containers |-> FreshContainer]
    /\ obj = [k \in Slots |-> FreeSlot]
    /\ ub = FALSE
    /\ last = [call |-> Op("init", "none", "none", "none", "ok"), n |-> NoCounts,
               ev |-> << >>]

(* the world w is the result of the operation recorded as l *)
Becomes(w, l) ==
    /\ ~w.overflow
    /\ c' = w.c
    /\ obj' = w.obj
    /\ ub' = w.ub
    /\ last' = [call |-> l,
                n |-> [ctors |-> w.ctors, dtors |-> w.dtors,
                       allocs |-> w.allocs, frees |-> w.frees],
                ev |-> w.ev]
    /\ UNCHANGED cfg

(* an instantiation the compiler rejects: nothing runs *)
Rejected(l) ==
    /\ last' = [call |-> l, n |-> NoCounts, ev |-> << >>]
    /\ UNCHANGED <<cfg, c, obj, ub>>

Vals == {0, 1}

(* a cast that accepts the exact type only *)
DynamicCast_Exact(w, x, U) ==
    LET p == HandlerGet(w, x) IN
    IF GetIsNull(w, x) \/ p = 0 THEN 0
    ELSE IF w.obj[p].type = U THEN p ELSE 0

(* dynamic_cast<U*>(get()): 0 is nullptr *)
DynamicCast(w, x, U) ==
    LET p == HandlerGet(w, x) IN
    IF GetIsNull(w, x) \/ p = 0 THEN 0
    ELSE IF is_base_of_v(U, w.obj[p].type) THEN p ELSE 0

(* reading through get() a cell that holds no live object is undefined *)
GetChecked(w, x) ==
    [w EXCEPT !.ub = @ \/ (~GetIsNull(w, x) /\ ~IsLive(w, HandlerGet(w, x)))]

BoolStr(b) == IF b THEN "true" ELSE "false"

(* polymorphic_value() *)
DefaultConstruct(x) ==
    /\ ~c[x].live
    /\ Becomes([World EXCEPT !.c[x] = FreshContainer],
               Op("construct", x, "none", "none", "ok"))

(* polymorphic_value(in_place_type_t<U>, args...) and make<U>(args...) *)
InPlaceConstruct(x, U, v) ==
    /\ ~c[x].live
    /\ IF EmplaceAccepted(U)
       THEN Becomes(emplace([World EXCEPT !.c[x] = FreshContainer], x, U, v),
                    Op("in_place", x, "none", U, "ok"))
       ELSE Rejected(Op("in_place", x, "none", U, "rejected"))

(* polymorphic_value(const polymorphic_value& src) requires copyable *)
CopyConstructor(x, src) ==
    /\ ~c[x].live /\ c[src].live /\ x # src
    /\ IF copyable
       THEN Becomes(CopyConstruct(World, x, src), Op("copy_construct", x, src, "none", "ok"))
       ELSE Rejected(Op("copy_construct", x, src, "none", "rejected"))

(* polymorphic_value(polymorphic_value&& src) requires movable *)
MoveConstructor(x, src) ==
    /\ ~c[x].live /\ c[src].live /\ x # src
    /\ IF movable
       THEN Becomes(MoveConstruct(World, x, src), Op("move_construct", x, src, "none", "ok"))
       ELSE Rejected(Op("move_construct", x, src, "none", "rejected"))

(* ~polymorphic_value() *)
Destructor(x) ==
    /\ c[x].live
    /\ Becomes(Destruct(World, x), Op("destruct", x, "none", "none", "ok"))

(* operator=(const polymorphic_value& src) requires copyable *)
CopyAssignment(x, src) ==
    /\ c[x].live /\ c[src].live
    /\ IF copyable
       THEN Becomes(CopyAssign(World, x, src), Op("copy_assign", x, src, "none", "ok"))
       ELSE Rejected(Op("copy_assign", x, src, "none", "rejected"))

(* operator=(polymorphic_value&& src) requires movable *)
MoveAssignment(x, src) ==
    /\ c[x].live /\ c[src].live
    /\ IF movable
       THEN Becomes(MoveAssign(World, x, src), Op("move_assign", x, src, "none", "ok"))
       ELSE Rejected(Op("move_assign", x, src, "none", "rejected"))

(* emplace<U>(args...) *)
Emplace(x, U, v) ==
    /\ c[x].live
    /\ IF EmplaceAccepted(U)
       THEN Becomes(emplace(World, x, U, v), Op("emplace", x, "none", U, "ok"))
       ELSE Rejected(Op("emplace", x, "none", U, "rejected"))

(* reset() *)
Reset(x) ==
    /\ c[x].live
    /\ Becomes(reset(World, x), Op("reset", x, "none", "none", "ok"))

(* operator bool() and has_value() *)
OperatorBool(x) ==
    /\ c[x].live
    /\ Becomes(World, Op("bool", x, "none", "none", BoolStr(~GetIsNull(World, x))))

(* has_value<U>() *)
HasValue(x, U) ==
    /\ c[x].live
    /\ Becomes(GetChecked(World, x),
               Op("has_value", x, "none", U, BoolStr(DynamicCast(World, x, U) # 0)))

(* value<U>() *)
Value(x, U) ==
    /\ c[x].live
    /\ Becomes(GetChecked(World, x),
               Op("value", x, "none", U,
                  IF DynamicCast(World, x, U) = 0 THEN "bad_optional_access" ELSE "ok"))

(* value().field = v: a write through the reference value<T>() returns *)
SetValue(x, v) ==
    /\ c[x].live
    /\ LET p == DynamicCast(World, x, cfg.T)
           w == GetChecked(World, x)
       IN  IF p = 0
           THEN Becomes(w, Op("set_value", x, "none", cfg.T, "bad_optional_access"))
           ELSE Becomes([w EXCEPT !.obj[p].val = v], Op("set_value", x, "none", cfg.T, "ok"))

Next ==
    \/ \E x \in Containers : DefaultConstruct(x)
    \/ \E x \in Containers, U \in Types, v \in Vals : InPlaceConstruct(x, U, v)
    \/ \E x, y \in Containers : CopyConstructor(x, y)
    \/ \E x, y \in Containers : MoveConstructor(x, y)
    \/ \E x \in Containers : Destructor(x)
    \/ \E x, y \in Containers : CopyAssignment(x, y)
    \/ \E x, y \in Containers : MoveAssignment(x, y)
    \/ \E x \in Containers, U \in Types, v \in Vals : Emplace(x, U, v)
    \/ \E x \in Containers : Reset(x)
    \/ \E x \in Containers : OperatorBool(x)
    \/ \E x \in Containers, U \in Types : HasValue(x, U)
    \/ \E x \in Containers, U \in Types : Value(x, U)
    \/ \E x \in Containers, v \in Vals : SetValue(x, v)

Spec == Init /\ [][Next]_vars

(* the start of the specifications that explore the instantiations with    *)
(* default options only: polymorphic_value<SmallBase>,                     *)
(* polymorphic_value<BigSub> and polymorphic_value<MoveOnly>               *)
InitDefault == Init /\ cfg.opt = DefaultOptions

(* sizeof(polymorphic_value<T, Options>), as the static_asserts of the     *)
(* test program evaluate it                                                *)
Sizeof ==
    LET n == sizeof_polymorphic_value
    IN  Becomes(World, OpRet("sizeof", "none", cfg.T, 0, "ok", n))

(* emplace<U>(args...) left by an exception: the constructor of U, or      *)
(* make_unique<U>, throws after the prior content is destroyed and the new *)
(* handler is in place; nothing is constructed in m_bytes or m_ptr.        *)
emplace_throws(w, x, U) ==
    LET w1 == HandlerDestroy(w, x) IN
    IF sizeof(U) <= sbo_size
    THEN Install(w1, x, small_handler(U))
    ELSE Install(w1, x, big_handler(U))

(* operator=(const polymorphic_value&) left by an exception: the copy      *)
(* constructor of the stored class, or make_unique, throws in              *)
(* m_handler.copy after the prior content is destroyed and the handler of  *)
(* src is in place.                                                        *)
CopyAssign_throws(w, x, src) == ImbueHandler(HandlerDestroy(w, x), src, x)

EmplaceThrows(x, U) ==
    /\ c[x].live
    /\ EmplaceAccepted(U)
    /\ Becomes(emplace_throws(World, x, U), Op("emplace", x, "none", U, "threw"))

(* an exception leaving a constructor: the container never comes to life,  *)
(* no destructor of it runs                                                *)
InPlaceConstructThrows(x, U) ==
    /\ ~c[x].live
    /\ EmplaceAccepted(U)
    /\ Becomes(World, Op("in_place", x, "none", U, "threw"))

CopyConstructorThrows(x, src) ==
    /\ ~c[x].live /\ c[src].live /\ x # src
    /\ copyable
    /\ c[src].h.kind \in {"small", "big"}
    /\ Becomes(World, Op("copy_construct", x, src, "none", "threw"))

CopyAssignmentThrows(x, src) ==
    /\ c[x].live /\ c[src].live /\ x # src
    /\ copyable
    /\ c[src].h.kind \in {"small", "big"}
    /\ Becomes(CopyAssign_throws(World, x, src), Op("copy_assign", x, src, "none", "threw"))

(* The member functions that construct a stored object, each returning or  *)
(* left by an exception of that construction, with reset and the           *)
(* destructor.                                                             *)
NextThrow ==
    \/ \E x \in Containers : DefaultConstruct(x)
    \/ \E x \in Containers, U \in Types, v \in Vals : InPlaceConstruct(x, U, v)
    \/ \E x, y \in Containers : CopyConstructor(x, y)
    \/ \E x \in Containers : Destructor(x)
    \/ \E x, y \in Containers : CopyAssignment(x, y)
    \/ \E x \in Containers, U \in Types, v \in Vals : Emplace(x, U, v)
    \/ \E x \in Containers : Reset(x)
    \/ \E x \in Containers, U \in Types : EmplaceThrows(x, U)
    \/ \E x \in Containers, U \in Types : InPlaceConstructThrows(x, U)
    \/ \E x, y \in Containers : CopyConstructorThrows(x, y)
    \/ \E x, y \in Containers : CopyAssignmentThrows(x, y)

SpecThrow == InitDefault /\ [][NextThrow]_vars

(* a test for a stored object that ignores its type *)
has_value_AnyType(w, x, U) == ~GetIsNull(w, x)

(* has_value<U>() *)
has_value(w, x, U) == DynamicCast(w, x, U) # 0

(* the static_cast of get() to a pointer to U compiles for a U that is T,  *)
(* a class derived from T or a base of T                                   *)
StaticCastAccepted(U) == is_base_of_v(cfg.T, U) \/ is_base_of_v(U, cfg.T)

(* the function the test program passes to transform and and_then:         *)
(* [](SmallSub& ss) { return ss.y + 1; }                                   *)
F(v) == v + 1

(* value_or<U>(default_value); returning the stored value copies a U *)
ValueOr(x, U, d) ==
    /\ c[x].live
    /\ IF ~is_copy_constructible_v(U)
       THEN Rejected(OpRet("value_or", x, U, d, "rejected", 0))
       ELSE LET ret == DynamicCast(World, x, U)
                w == GetChecked(World, x)
            IN  IF ret # 0
                THEN Becomes(w, OpRet("value_or", x, U, d, "stored", ValueAt(World, ret)))
                ELSE Becomes(w, OpRet("value_or", x, U, d, "default", d))

(* and_then<U>(f): f applied to the stored U, or R() *)
AndThen(x, U) ==
    /\ c[x].live
    /\ IF ~StaticCastAccepted(U)
       THEN Rejected(OpRet("and_then", x, U, 0, "rejected", 0))
       ELSE LET w == GetChecked(World, x) IN
            IF has_value(World, x, U)
            THEN Becomes(w, OpRet("and_then", x, U, 0, "f",
                                  F(ValueAt(World, HandlerGet(World, x)))))
            ELSE Becomes(w, OpRet("and_then", x, U, 0, "empty", 0))

(* transform<U>(f): optional<R> of f applied to the stored U, or optional<R>() *)
Transform(x, U) ==
    /\ c[x].live
    /\ IF ~StaticCastAccepted(U)
       THEN Rejected(OpRet("transform", x, U, 0, "rejected", 0))
       ELSE LET w == GetChecked(World, x) IN
            IF has_value(World, x, U)
            THEN Becomes(w, OpRet("transform", x, U, 0, "optional_f",
                                  F(ValueAt(World, HandlerGet(World, x)))))
            ELSE Becomes(w, OpRet("transform", x, U, 0, "nullopt", 0))

(* or_else<U>(f): an R made from a copy of the stored U, or the result of   *)
(* f(); the f of the test program returns optional<SmallSub>(-1)            *)
OrElse(x, U) ==
    /\ c[x].live
    /\ IF ~StaticCastAccepted(U) \/ ~is_copy_constructible_v(U)
       THEN Rejected(OpRet("or_else", x, U, 0, "rejected", 0))
       ELSE LET w == GetChecked(World, x) IN
            IF has_value(World, x, U)
            THEN Becomes(w, OpRet("or_else", x, U, 0, "stored",
                                  ValueAt(World, HandlerGet(World, x))))
            ELSE Becomes(w, OpRet("or_else", x, U, 0, "f", -1))

(* The optional-style accessors, on containers filled and emptied by       *)
(* emplace and reset.                                                      *)
NextAccess ==
    \/ \E x \in Containers, U \in Types, v \in Vals : Emplace(x, U, v)
    \/ \E x \in Containers : Reset(x)
    \/ \E x \in Containers, U \in Types, d \in Vals : ValueOr(x, U, d)
    \/ \E x \in Containers, U \in Types : AndThen(x, U)
    \/ \E x \in Containers, U \in Types : Transform(x, U)
    \/ \E x \in Containers, U \in Types : OrElse(x, U)

SpecAccess == InitDefault /\ [][NextAccess]_vars

(* The size scenario: containers are constructed in place with any of the  *)
(* classes, HugeSub included, and destructed.                              *)
NextSizes ==
    \/ \E x \in Containers, U \in AllTypes, v \in Vals : InPlaceConstruct(x, U, v)
    \/ \E x \in Containers : Destructor(x)
    \/ Sizeof

SpecSizes == Init /\ [][NextSizes]_vars

----------------------------------------------------------------------------
(* Vocabulary of the properties *)

Live == {x \in Containers : c[x].live}

LiveObjs == {k \in Slots : obj[k].state = "live"}

HeapLive == {k \in LiveObjs : obj[k].heap}

Empty(x) == c[x].h = handler_base

Holding(x) == c[x].h.kind \in {"small", "big"}

BigHolders == {x \in Live : c[x].h.kind = "big"}

(* the slot of the object container x stores, 0 if none *)
Stored(x) ==
    CASE c[x].h.kind = "small" -> c[x].bytes
      [] c[x].h.kind = "big" -> c[x].ptr
      [] OTHER -> 0

(* the inline region of x holds a live object / the heap handle of x is a  *)
(* live unique_ptr                                                         *)
InlineInitialized(x) == c[x].bytes \in LiveObjs
HandleInitialized(x) == c[x].ptrInit

(* operator bool of x in the current state *)
Bool(x) == ~GetIsNull(World, x)

Holders(k) == {x \in Live : Holding(x) /\ Stored(x) = k}

Ok(ops) == last.call.op \in ops /\ last.call.res = "ok"

(* the step is a call of one of ops on x that ran *)
Step(ops, x) ==
    /\ last'.call.op \in ops
    /\ last'.call.x = x
    /\ last'.call.res = "ok"

----------------------------------------------------------------------------
(* C1: every live container is either Empty (empty descriptor, no live     *)
(* object, bool false) or Holding exactly one live object whose concrete   *)
(* type and storage kind are those of the installed descriptor (bool       *)
(* true); the inline region and the heap handle are never both             *)
(* initialized.                                                            *)
C1_EmptyOrHolding ==
    /\ \A x \in Live :
          /\ \/ /\ Empty(x)
                /\ ~InlineInitialized(x)
                /\ c[x].ptr \notin LiveObjs
                /\ ~Bool(x)
             \/ /\ c[x].h.kind = "small"
                /\ InlineInitialized(x)
                /\ obj[c[x].bytes].type = c[x].h.type
                /\ ~obj[c[x].bytes].heap
                /\ ~HandleInitialized(x)
                /\ Bool(x)
             \/ /\ c[x].h.kind = "big"
                /\ HandleInitialized(x)
                /\ c[x].ptr \in LiveObjs
                /\ obj[c[x].ptr].type = c[x].h.type
                /\ obj[c[x].ptr].heap
                /\ ~InlineInitialized(x)
                /\ Bool(x)
          /\ ~(InlineInitialized(x) /\ HandleInitialized(x))
    /\ \A x, y \in Live : (x # y /\ Holding(x) /\ Holding(y)) => Stored(x) # Stored(y)

C1_Witness ==
    /\ c["a"].live /\ c["a"].h.kind = "small"
    /\ c["b"].live /\ c["b"].h.kind = "big"
    /\ Ok({"emplace"}) /\ last.call.x = "b" /\ last.n.dtors = 1

(* C2: the destructor of every constructed object runs exactly once: it    *)
(* never runs on a cell without a live object, every destructor call of a  *)
(* step ends the life of one object, and an object that no live container  *)
(* stores has been destroyed.                                              *)
C2_DestroyedExactlyOnce ==
    /\ [](/\ ~ub
          /\ \A k \in LiveObjs : Cardinality(Holders(k)) = 1)
    /\ [][Cardinality(LiveObjs') =
            Cardinality(LiveObjs) + last'.n.ctors - last'.n.dtors]_vars

C2_Witness ==
    /\ Ok({"destruct"}) /\ last.n.dtors = 1
    /\ LiveObjs = {}
    /\ Live = {}

(* C3: a U larger than the inline capacity (heap allowed) costs exactly    *)
(* one allocation per emplace; an allocation is released exactly once,     *)
(* when its container is destructed, reset or refilled; the live           *)
(* allocations are exactly those of the containers that hold a             *)
(* heap-stored object.                                                     *)
C3_HeapBalance ==
    /\ [](/\ ~ub
          /\ Cardinality(HeapLive) = Cardinality(BigHolders)
          /\ \A x \in BigHolders : c[x].ptr \in HeapLive
          /\ (Ok({"emplace", "in_place"}) /\ sizeof(last.call.U) > sbo_size) =>
                /\ last.n.allocs = 1
                /\ c[last.call.x].h = big_handler(last.call.U)
                /\ c[last.call.x].ptr \in HeapLive)
    /\ [][/\ Cardinality(HeapLive') =
                Cardinality(HeapLive) + last'.n.allocs - last'.n.frees
          /\ \A x \in BigHolders :
                (/\ Step({"destruct", "reset", "emplace", "copy_assign", "move_assign"}, x)
                 /\ last'.call.y # x)
                    => last'.n.frees = 1]_vars

C3_Witness ==
    /\ Ok({"emplace"}) /\ last.call.x = "a"
    /\ last.n.allocs = 1 /\ last.n.frees = 1
    /\ c["a"].h.kind = "big" /\ c["b"].live /\ c["b"].h.kind = "big"

(* C4: a move from a non-empty a into a distinct b leaves a Empty and b    *)
(* non-empty with a's former dynamic type and storage kind; a's former     *)
(* object is destroyed once if it was inline and lives on in b if it was   *)
(* on the heap, and no later operation destroys it again.                  *)
C4_MoveLeavesSourceEmpty ==
    /\ [][\A x, y \in Containers :
             (/\ Step({"move_assign", "move_construct"}, x)
              /\ last'.call.y = y /\ x # y /\ Holding(y)) =>
                /\ Empty(y)' /\ ~Bool(y)'
                /\ Bool(x)'
                /\ c'[x].h = c[y].h
                /\ Stored(x)' \in LiveObjs'
                /\ obj'[Stored(x)'].type = obj[Stored(y)].type
                /\ obj'[Stored(x)'].heap = obj[Stored(y)].heap
                /\ IF c[y].h.kind = "small"
                   THEN /\ Stored(y) \notin LiveObjs'
                        /\ last'.n.dtors = 1 + (IF Holding(x) /\ c[x].live THEN 1 ELSE 0)
                   ELSE /\ Stored(x)' = Stored(y)
                        /\ last'.n.dtors = IF Holding(x) /\ c[x].live THEN 1 ELSE 0]_vars
    /\ []~ub

C4_Witness ==
    /\ Ok({"move_assign"}) /\ last.call.x = "b" /\ last.call.y = "a"
    /\ c["a"].live /\ Empty("a")
    /\ c["b"].live /\ c["b"].h.kind = "small"
    /\ last.n.dtors = 2

(* C5: a copy gives the destination its own object of the source's         *)
(* dynamic type and value and leaves the source unchanged; a later write,  *)
(* emplace or reset of one container leaves the other one unchanged.       *)
C5_CopyRoundTrip ==
    /\ [][\A x, y \in Containers :
             (/\ Step({"copy_assign", "copy_construct"}, x)
              /\ last'.call.y = y /\ x # y /\ Holding(y)) =>
                /\ c'[y] = c[y]
                /\ obj'[Stored(y)] = obj[Stored(y)]
                /\ c'[x].h = c[y].h
                /\ Stored(x)' \in LiveObjs'
                /\ Stored(x)' # Stored(y)'
                /\ obj'[Stored(x)'].type = obj[Stored(y)].type
                /\ obj'[Stored(x)'].val = obj[Stored(y)].val]_vars
    /\ [][\A x, y \in Containers :
             (Step({"set_value", "emplace", "reset"}, x) /\ x # y /\ c[y].live) =>
                /\ c'[y] = c[y]
                /\ Holding(y) => obj'[Stored(y)] = obj[Stored(y)]]_vars

C5_Witness ==
    /\ Ok({"set_value"})
    /\ c["a"].live /\ c["b"].live
    /\ c["a"].h.kind = "big" /\ c["b"].h = c["a"].h
    /\ copyable
    /\ obj[Stored("a")].val # obj[Stored("b")].val

CopyOps == {"copy_assign", "copy_construct"}
MoveOps == {"move_assign", "move_construct"}
EmplaceOps == {"emplace", "in_place"}

(* C6: copying (moving) a container whose base type is copyable (movable)  *)
(* while the stored subtype is not ends in a runtime failure raised by the *)
(* copy (move).                                                            *)
C6_RuntimeFailure ==
    [][\A x, y \in Containers :
          (/\ last'.call.x = x /\ last'.call.y = y /\ x # y /\ Holding(y)
           /\ \/ /\ last'.call.op \in CopyOps
                 /\ is_copy_constructible_v(cfg.T)
                 /\ ~is_copy_constructible_v(c[y].h.type)
              \/ /\ last'.call.op \in MoveOps
                 /\ is_move_constructible_v(cfg.T)
                 /\ ~is_move_constructible_v(c[y].h.type))
            => last'.call.res = "runtime_error"]_vars

(* the inline capacity as the original statement has it: the configured   *)
(* size raised to the size of the base type                                *)
RaisedCapacity == Max(cfg.opt.size, sizeof(cfg.T))

(* the inline capacity: with heap allowed the configured size if the base  *)
(* type fits it and 0 if not; with heap disallowed the configured size     *)
(* raised to the size of the base type                                     *)
EffectiveCapacity ==
    IF cfg.opt.heap
    THEN (IF cfg.opt.size < sizeof(cfg.T) THEN 0 ELSE cfg.opt.size)
    ELSE RaisedCapacity

(* the content of x is placed as a capacity of cap decides *)
PlacedBy(x, cap) ==
    IF sizeof(c[x].h.type) <= cap
    THEN c[x].h.kind = "small" /\ ~obj[Stored(x)].heap
    ELSE c[x].h.kind = "big" /\ obj[Stored(x)].heap

(* C7 as stated: the content of every container is inline iff its size is  *)
(* at most the configured capacity raised to the size of the base type.    *)
C7_PlacementRaised ==
    \A x \in Live : Holding(x) => PlacedBy(x, RaisedCapacity)

(* C7, amended: the content of every container is inline iff its size is   *)
(* at most the effective capacity (0 when heap is allowed and the          *)
(* configured size is below the size of the base type); with heap          *)
(* disallowed everything is inline; each emplace decides afresh, from the  *)
(* size of U alone.                                                        *)
C7_Placement ==
    /\ \A x \in Live : Holding(x) =>
          /\ PlacedBy(x, EffectiveCapacity)
          /\ ~cfg.opt.heap => c[x].h.kind = "small"
    /\ Ok(EmplaceOps) =>
          /\ c[last.call.x].h.type = last.call.U
          /\ last.n.allocs = IF sizeof(last.call.U) <= EffectiveCapacity THEN 0 ELSE 1

C7_Witness ==
    /\ Ok({"emplace"})
    /\ cfg.opt.heap /\ cfg.opt.size < sizeof(cfg.T)
    /\ c[last.call.x].h = big_handler(cfg.T)
    /\ last.n.allocs = 1 /\ last.n.frees = 1

(* C8: an emplace of a U that fits the inline capacity allocates nothing,  *)
(* and neither does a copy or a move of a container that holds an          *)
(* inline-stored object.                                                   *)
C8_InlineNeverAllocates ==
    /\ []((Ok(EmplaceOps) /\ sizeof(last.call.U) <= sbo_size) =>
            /\ last.n.allocs = 0
            /\ c[last.call.x].h = small_handler(last.call.U)
            /\ HeapLive \subseteq {c[y].ptr : y \in Containers \ {last.call.x}})
    /\ [][\A x, y \in Containers :
             (/\ Step(CopyOps \cup MoveOps, x)
              /\ last'.call.y = y /\ c[y].h.kind = "small")
                => /\ last'.n.allocs = 0
                   /\ HeapLive' \subseteq HeapLive]_vars

C8_Witness ==
    /\ Ok({"copy_assign"})
    /\ c["a"].live /\ c["a"].h.kind = "small"
    /\ c["b"].live /\ c["b"].h = c["a"].h
    /\ sizeof(c["a"].h.type) = sbo_size
    /\ last.n.ctors = 1 /\ last.n.allocs = 0

(* the conditions under which the statement has emplace<U> rejected *)
StaticallyRejected(U) ==
    \/ ~is_base_of_v(cfg.T, U)
    \/ (cfg.opt.copy /\ is_copy_constructible_v(cfg.T)) /\ ~is_copy_constructible_v(U)
    \/ (cfg.opt.move /\ is_move_constructible_v(cfg.T)) /\ ~is_move_constructible_v(U)
    \/ ~cfg.opt.heap /\ sizeof(U) > EffectiveCapacity
    \/ alignof(U) > Max(alignof(cfg.T), cfg.opt.alignment)

(* C9: emplace<U> is rejected statically, without a runtime error and      *)
(* without a change of state, exactly when U is not the base type or a     *)
(* subtype, U lacks a capability the effective configuration requires, U   *)
(* is too large with heap disallowed, or U is over-aligned; with heap      *)
(* allowed a larger U is accepted and goes to the heap.                    *)
C9_StaticRejection ==
    /\ [](last.call.op \in EmplaceOps =>
            /\ last.call.res \in {"ok", "rejected"}
            /\ (last.call.res = "rejected") <=> StaticallyRejected(last.call.U)
            /\ (/\ last.call.res = "ok" /\ cfg.opt.heap
                /\ sizeof(last.call.U) > EffectiveCapacity)
                  => c[last.call.x].h = big_handler(last.call.U))
    /\ [][(last'.call.op \in EmplaceOps /\ last'.call.res = "rejected")
            => (c' = c /\ obj' = obj /\ ub' = ub)]_vars

C9_Witness ==
    /\ last.call.op = "emplace" /\ last.call.res = "rejected"
    /\ last.call.U = "BigSub"
    /\ ~cfg.opt.heap
    /\ Holding(last.call.x)

(* C10: has_value<U>() is true iff the container is non-empty and the      *)
(* dynamic type of the stored object is U or derived from U; value<U>()    *)
(* succeeds in exactly that case and fails with bad_optional_access        *)
(* otherwise; neither changes the container.                               *)
C10_Downcast ==
    /\ [](last.call.op \in {"has_value", "value"} =>
            LET x == last.call.x
                present == /\ Holding(x)
                           /\ Stored(x) \in LiveObjs
                           /\ is_base_of_v(last.call.U, obj[Stored(x)].type)
            IN  last.call.res =
                    IF last.call.op = "has_value" THEN BoolStr(present)
                    ELSE IF present THEN "ok" ELSE "bad_optional_access")
    /\ [][last'.call.op \in {"has_value", "value"}
            => (c' = c /\ obj' = obj /\ ub' = ub)]_vars

C10_Witness ==
    /\ last.call.op = "has_value" /\ last.call.res = "true"
    /\ last.call.U = "SmallBase"
    /\ c[last.call.x].h.type = "SmallSub"

(* C11: reset() on a container in any state destroys the object it holds,  *)
(* if any, and leaves the container Empty: the empty descriptor is         *)
(* installed, operator bool is false and has_value<U>() is false for every *)
(* U; on an Empty container it changes nothing; a second reset changes     *)
(* nothing more.                                                           *)
C11_ResetEmpties ==
    /\ [][\A x \in Containers : Step({"reset"}, x) =>
             /\ Empty(x)' /\ ~Bool(x)'
             /\ \A U \in Types : DynamicCast(World, x, U)' = 0
             /\ last'.n.ctors = 0 /\ last'.n.allocs = 0
             /\ IF Holding(x)
                THEN /\ last'.n.dtors = 1
                     /\ Stored(x) \in LiveObjs /\ Stored(x) \notin LiveObjs'
                     /\ last'.n.frees = IF c[x].h.kind = "big" THEN 1 ELSE 0
                ELSE /\ last'.n.dtors = 0 /\ last'.n.frees = 0
                     /\ c' = c /\ obj' = obj /\ ub' = ub]_vars
    /\ [](\A x \in Live :
            LET w1 == reset(World, x)
                w2 == reset(w1, x)
            IN  /\ w2.c = w1.c /\ w2.obj = w1.obj /\ w2.ub = w1.ub
                /\ w2.dtors = w1.dtors /\ w2.frees = w1.frees)

C11_Witness ==
    /\ Ok({"reset"}) /\ last.n.dtors = 1 /\ last.n.frees = 1
    /\ Empty(last.call.x)
    /\ \E y \in Live : c[y].h.kind = "small"

(* C12: copy-assigning or move-assigning a container to itself changes     *)
(* nothing: the descriptor, the stored object (type, value, storage kind)  *)
(* and the heap allocations stay as they were, nothing is constructed,     *)
(* destroyed, allocated or freed, and a self move-assignment does not      *)
(* leave the container Empty.                                              *)
C12_SelfAssignment ==
    [][\A x \in Containers :
          (Step({"copy_assign", "move_assign"}, x) /\ last'.call.y = x) =>
             /\ c' = c /\ obj' = obj /\ ub' = ub
             /\ last'.n = NoCounts
             /\ HeapLive' = HeapLive
             /\ Holding(x) => (Holding(x)' /\ Bool(x)' /\ Stored(x)' \in LiveObjs')]_vars

C12_Witness ==
    /\ Ok({"move_assign"}) /\ last.call.y = last.call.x
    /\ c[last.call.x].h.kind = "big" /\ Bool(last.call.x)
    /\ Stored(last.call.x) \in HeapLive

(* C13: emplace<U'> on a container that holds an object first destroys    *)
(* that object and only then installs the new descriptor and constructs    *)
(* the U': one destructor call, then the handler, then one constructor     *)
(* call, so the container never stores two live objects; it ends Holding   *)
(* the U' with the storage kind decided from the size of U' alone,         *)
(* whatever the kind of the prior content was.                             *)
C13_DestroyThenConstruct ==
    [][\A x \in Containers : (Step({"emplace"}, x) /\ Holding(x)) =>
          LET U == last'.call.U IN
          /\ last'.ev = <<"destroy", "install", "construct">>
          /\ Cardinality(LiveObjs') = Cardinality(LiveObjs)
          /\ c'[x].h = IF sizeof(U) <= sbo_size THEN small_handler(U) ELSE big_handler(U)
          /\ Stored(x)' \in LiveObjs'
          /\ obj'[Stored(x)'].type = U
          /\ obj'[Stored(x)'].heap = (sizeof(U) > sbo_size)
          /\ \A y \in Containers \ {x} : Holding(y)' => Stored(y)' # Stored(x)'
          /\ last'.n.frees = (IF c[x].h.kind = "big" THEN 1 ELSE 0)
          /\ ~ub']_vars

C13_Witness ==
    /\ Ok({"emplace"})
    /\ last.ev = <<"destroy", "install", "construct">>
    /\ c[last.call.x].h.kind = "small"
    /\ last.n.frees = 1

(* the instantiations of the size scenario: an inline capacity of 64, a    *)
(* base type that fits it and no alignment above that of a pointer         *)
SizeScenario ==
    /\ cfg.opt.size = 64 /\ sizeof(cfg.T) <= 64
    /\ alignment <= PointerSize

(* C14 as stated: in the size scenario a container constructed with a      *)
(* 16-byte subtype stores it inline and has the size of the capacity plus  *)
(* one pointer, and a container constructed with a 512-byte subtype stores *)
(* it on the heap and has the size of two pointers.                        *)
C14_SizeByPayload ==
    SizeScenario =>
        \A x \in Live : Holding(x) =>
            /\ sizeof(c[x].h.type) = 16 =>
                  /\ c[x].h.kind = "small"
                  /\ sizeof_polymorphic_value = 64 + PointerSize
            /\ sizeof(c[x].h.type) = 512 =>
                  /\ c[x].h.kind = "big"
                  /\ sizeof_polymorphic_value = PointerSize + PointerSize

(* C14, amended: the size of a container is fixed by its instantiation and *)
(* is the same whatever it stores.  In the size scenario it is the         *)
(* capacity plus one pointer, both when it stores a 16-byte subtype inline *)
(* and when it stores a 512-byte subtype on the heap; a container has the  *)
(* size of two pointers exactly when its inline capacity is at most one    *)
(* pointer, which with heap allowed is the case of a base type larger than *)
(* the configured capacity.                                                *)
C14_SizeByInstantiation ==
    /\ SizeScenario =>
          /\ sizeof_polymorphic_value = 64 + PointerSize
          /\ \A x \in Live : Holding(x) =>
                /\ sizeof(c[x].h.type) = 16 => c[x].h.kind = "small"
                /\ sizeof(c[x].h.type) = 512 => c[x].h.kind = "big"
    /\ alignment <= PointerSize =>
          /\ sizeof_polymorphic_value = Max(sbo_size, PointerSize) + PointerSize
          /\ (sizeof_polymorphic_value = PointerSize + PointerSize)
                <=> sbo_size <= PointerSize
          /\ (cfg.opt.heap /\ cfg.opt.size < sizeof(cfg.T))
                => sizeof_polymorphic_value = PointerSize + PointerSize
    /\ Ok({"sizeof"}) => last.call.ret = sizeof_polymorphic_value

C14_Witness ==
    /\ SizeScenario
    /\ c["a"].live /\ c["a"].h = small_handler("SmallSub")
    /\ c["b"].live /\ c["b"].h = big_handler("HugeSub")
    /\ sizeof("SmallSub") = 16 /\ sizeof("HugeSub") = 512
    /\ Ok({"sizeof"}) /\ last.call.ret = 64 + PointerSize

AccessorOps == {"value_or", "and_then", "transform", "or_else"}

(* C15: each U-typed accessor takes its present branch exactly when the    *)
(* container stores a live object whose dynamic type is U or derived from  *)
(* U (has_value<U>() is true), and changes nothing: and_then<U>(f) returns *)
(* f of the stored object if present and an empty result otherwise;        *)
(* transform<U>(f) returns f's result wrapped in an optional if present    *)
(* and an empty optional otherwise; or_else<U>(f) returns the stored value *)
(* if present and f() otherwise; value_or<U>(d) returns the stored value   *)
(* if present and d otherwise.                                             *)
C15_Accessors ==
    /\ []((last.call.op \in AccessorOps /\ last.call.res # "rejected") =>
            LET x == last.call.x
                present == /\ Holding(x)
                           /\ Stored(x) \in LiveObjs
                           /\ is_base_of_v(last.call.U, obj[Stored(x)].type)
                val == obj[Stored(x)].val
            IN  /\ present <=> last.call.res \in {"stored", "optional_f"}
                              \/ (last.call.op = "and_then" /\ last.call.res = "f")
                /\ last.call.op = "and_then" =>
                      IF present THEN last.call.res = "f" /\ last.call.ret = F(val)
                      ELSE last.call.res = "empty"
                /\ last.call.op = "transform" =>
                      IF present THEN last.call.res = "optional_f" /\ last.call.ret = F(val)
                      ELSE last.call.res = "nullopt"
                /\ last.call.op = "or_else" =>
                      IF present THEN last.call.res = "stored" /\ last.call.ret = val
                      ELSE last.call.res = "f"
                /\ last.call.op = "value_or" =>
                      IF present THEN last.call.res = "stored" /\ last.call.ret = val
                      ELSE last.call.res = "default" /\ last.call.ret = last.call.arg)
    /\ [][last'.call.op \in AccessorOps =>
            (c' = c /\ obj' = obj /\ ub' = ub /\ last'.n = NoCounts)]_vars

C15_Witness ==
    /\ last.call.op = "or_else" /\ last.call.res = "stored"
    /\ last.call.U = "SmallBase"
    /\ c[last.call.x].h.type = "SmallSub"
    /\ last.call.ret = 1

(* C16: a container of a copyable (movable) instantiation only ever       *)
(* stores objects of copy-constructible (move-constructible) classes, so   *)
(* every copy or move from a non-empty source constructs or takes over an  *)
(* object: the destination ends with the source's descriptor over a live   *)
(* object of that type, never over an unconstructed cell.                  *)
C16_CapabilityInvariant ==
    /\ [](\A x \in Live : Holding(x) =>
            /\ copyable => is_copy_constructible_v(c[x].h.type)
            /\ movable => is_move_constructible_v(c[x].h.type))
    /\ [][\A x, y \in Containers :
             (/\ Step(CopyOps \cup MoveOps, x)
              /\ last'.call.y = y /\ x # y /\ Holding(y)) =>
                /\ IF last'.call.op \in CopyOps
                   THEN /\ is_copy_constructible_v(c[y].h.type)
                        /\ last'.n.ctors = 1
                   ELSE /\ is_move_constructible_v(c[y].h.type)
                        /\ last'.n.ctors = IF c[y].h.kind = "small" THEN 1 ELSE 0
                /\ c'[x].h = c[y].h
                /\ Stored(x)' \in LiveObjs'
                /\ obj'[Stored(x)'].type = c'[x].h.type
                /\ ~ub']_vars

C16_Witness ==
    /\ Ok({"copy_construct"})
    /\ copyable /\ movable
    /\ c[last.call.x].h = small_handler("SmallSub")
    /\ c[last.call.y].h = small_handler("SmallSub")
    /\ last.n.ctors = 1

(* C17: when the construction of the new object fails during emplace,     *)
(* copy construction or copy assignment, the container is left Empty or    *)
(* Holding a live object of the type of its descriptor, and no later       *)
(* reset, assignment or destruction runs destroy on a cell without a live  *)
(* object.                                                                 *)
C17_FailedConstructionSafe ==
    /\ ~ub
    /\ \A x \in Live :
          \/ Empty(x)
          \/ /\ Holding(x)
             /\ Stored(x) \in LiveObjs
             /\ obj[Stored(x)].type = c[x].h.type

(* the number of objects the destination x of an assignment or            *)
(* construction gives up: one if it holds an object, none otherwise        *)
Released(x) == IF c[x].live /\ Holding(x) THEN 1 ELSE 0

(* C18: a move from a container that holds a heap-stored object hands the  *)
(* same heap object to the destination: it allocates nothing, constructs   *)
(* nothing, neither destroys nor frees that object, the destination refers *)
(* to the allocation the source held and the reset of the source frees     *)
(* nothing (the only object freed is the one the destination gave up).  A  *)
(* move from a container that holds an inline object constructs one new    *)
(* inline object in the destination and destroys the source's object       *)
(* exactly once.                                                           *)
C18_MoveTransfersOwnership ==
    [][\A x, y \in Containers :
          (/\ Step(MoveOps, x)
           /\ last'.call.y = y /\ x # y /\ Holding(y)) =>
             IF c[y].h.kind = "big"
             THEN /\ last'.n.allocs = 0 /\ last'.n.ctors = 0
                  /\ Stored(x)' = Stored(y)
                  /\ c'[x].ptr = c[y].ptr /\ c'[x].ptrInit
                  /\ obj'[Stored(y)] = obj[Stored(y)]
                  /\ Stored(y) \in HeapLive'
                  /\ c'[y].ptr = 0
                  /\ last'.n.dtors = Released(x)
                  /\ last'.n.frees =
                        (IF c[x].live /\ c[x].h.kind = "big" THEN 1 ELSE 0)
             ELSE /\ last'.n.allocs = 0 /\ last'.n.ctors = 1
                  /\ c'[x].h.kind = "small"
                  /\ Stored(x)' \in LiveObjs' /\ ~obj'[Stored(x)'].heap
                  /\ obj'[Stored(x)'].type = obj[Stored(y)].type
                  /\ obj'[Stored(x)'].val = obj[Stored(y)].val
                  /\ Stored(y) \notin LiveObjs'
                  /\ last'.n.dtors = 1 + Released(x)
                  /\ Cardinality(LiveObjs') = Cardinality(LiveObjs) - Released(x)]_vars

C18_Witness ==
    /\ Ok({"move_assign"}) /\ last.call.x # last.call.y
    /\ c[last.call.x].h.kind = "big" /\ Stored(last.call.x) \in HeapLive
    /\ Empty(last.call.y)
    /\ last.n.allocs = 0 /\ last.n.frees = 1 /\ last.n.dtors = 1
    /\ Cardinality(HeapLive) = 1

(* C19: a copy or move construction or assignment from an Empty source     *)
(* leaves the destination Empty: the object the destination held, if any,  *)
(* is destroyed exactly once, the empty descriptor is installed in the     *)
(* destination, nothing is constructed or allocated and the source stays   *)
(* Empty and unchanged.                                                    *)
C19_EmptySource ==
    [][\A x, y \in Containers :
          (/\ Step(CopyOps \cup MoveOps, x)
           /\ last'.call.y = y /\ x # y /\ Empty(y)) =>
             /\ c'[x].live /\ Empty(x)' /\ ~Bool(x)'
             /\ last'.n.dtors = Released(x)
             /\ Released(x) = 1 =>
                   /\ Stored(x) \in LiveObjs
                   /\ LiveObjs' = LiveObjs \ {Stored(x)}
             /\ Released(x) = 0 => obj' = obj
             /\ last'.n.ctors = 0 /\ last'.n.allocs = 0
             /\ c'[y] = c[y] /\ Empty(y)' /\ ~Bool(y)'
             /\ ~ub']_vars

C19_Witness ==
    /\ Ok({"copy_assign"}) /\ last.call.x # last.call.y
    /\ Empty(last.call.x) /\ Empty(last.call.y)
    /\ c[last.call.x].live /\ c[last.call.y].live
    /\ last.n.dtors = 1 /\ last.n.frees = 1 /\ last.n.ctors = 0

====
